---- MODULE Spec2Model ----
(***************************************************************************)
(* Token refresh coordination of the authenticated HTTP client.            *)
(*                                                                         *)
(*   core/auth/tokenRefresh.js   TokenRefreshManager (singleton)           *)
(*   core/api/index.js           axios request / response interceptors     *)
(*   features/auth/stores/authStore.js   useAuthStore (setAuth, logout,    *)
(*                                       getMe)                            *)
(*   features/auth/api/index.js  loginUser, refreshToken, logoutUser       *)
(*   shared/components/ui/TokenRefreshDemo.jsx   handleManualRefresh       *)
(*                                                                         *)
(* JavaScript runs one task at a time.  An action of this module is one    *)
(* synchronous block of a handler: from the event that starts it (a        *)
(* response, a timer, a click, the continuation of an await) to its next   *)
(* await or return.  Continuations of already settled promises are         *)
(* microtasks: they run before any further task, which the guard           *)
(* ~MicrotaskPending of every task action states.                          *)
(***************************************************************************)
EXTENDS Integers, Sequences, FiniteSets, TLC

\* ---------------------------------------------------------------- bounds
NReq == 2              \* requests sent through the axios instance
MaxTok == 2            \* access tokens the backend issues (logins and refreshes)
MaxCycles == 2         \* shared refresh promises triggerRefresh creates
MaxUserLogouts == 1    \* the user asks for a logout while fewer than this are pending
MaxRetriesOption == 2  \* largest options.maxRetries a caller of the api client passes
MaxInitGetMes == 2     \* initializeAuth is called while it has issued fewer getMe calls

Req == 1..NReq
Manual == 0            \* owner id of the refresh call of handleManualRefresh

\* ------------------------------------------------------ program constants
TOKEN_EXPIRY_MS == 15 * 60 * 1000
REFRESH_BEFORE_EXPIRY_MS == 2 * 60 * 1000
MIN_REFRESH_IN_MS == 30000

\* window.location.pathname as the interceptor reads it (line 131).  The value
\* is read when the 401 arrives and used once, at the logout test of the branch
\* the handler ends in; the model draws it where it is used.
Paths == {"/login", "/app"}

\* response.data.error / response.data.message of a 401, by the words the
\* classification looks for ("" stands for an absent field)
Texts == {"", "token expired", "invalid token", "unauthorized"}

\* the bodies of 401 responses the backend is taken to send
Bodies == {[error |-> "token expired", message |-> ""],
           [error |-> "", message |-> "token expired"],
           [error |-> "invalid token", message |-> ""],
           [error |-> "unauthorized", message |-> ""],
           [error |-> "", message |-> ""]}

\* config.url of the requests callers send through the axios instance:
\* loginUser posts to /auth/login, the features call other endpoints
Urls == {"/auth/login", "/tours"}

\* what the exp claim of the stored token can say when getMe() answers: it
\* cannot be read or has passed (0), 20 s, 5 min, the full 15 min
Lifetimes == {0, 20000, 300000, TOKEN_EXPIRY_MS}

\* String.prototype.includes, on the texts and words the program compares
Includes(text, word) ==
    \/ text = "token expired" /\ word = "expired"
    \/ text = "invalid token" /\ word = "invalid"
    \/ text = "/auth/login" /\ word = "/auth/login"

\* ----------------------------------------------------------------- errors
NoErr == [kind |-> "none", of |-> 0]
Http401(r) == [kind |-> "http401", of |-> r]     \* the 401 error of request r
HttpErr(r) == [kind |-> "http", of |-> r]        \* another failure of request r
RefreshErr(o) == [kind |-> "refresh", of |-> o]  \* refreshToken() of owner o threw
LogoutErr == [kind |-> "logout", of |-> 0]       \* Error("Logout - clearing request queue")

VARIABLES
    mgr,        \* TokenRefreshManager fields
    store,      \* useAuthStore state and localStorage.accessToken
    req,        \* the requests and the position of their interceptor
    shared,     \* state of the shared refresh promise created last
    manual,     \* handleManualRefresh in progress
    logouts,    \* logout() invocations awaiting logoutUser()
    testedPath, \* the currentPath the last step compared with "/login" ("": it compared none)
    givenUser,  \* the user the last step passed to setAuth ("-": it did not call setAuth)
    api,        \* a call of api.get/post/...: the position of executeWithRetry
    restore,    \* session restoration: initializeAuth's race and the getMe calls pending
    ids,        \* how many tokens were issued and shared promises created
    nCalls      \* refresh calls the response interceptor has started so far

vars == <<mgr, store, req, shared, manual, logouts, testedPath, givenUser, api, restore, ids, nCalls>>

\* ------------------------------------------------------------ world record
\* A handler calls several methods in sequence; each method is an operator
\* from world to world and a handler is their composition.
World == [mgr |-> mgr, store |-> store, req |-> req, shared |-> shared,
          logouts |-> logouts, ids |-> ids, testedPath |-> "", givenUser |-> "-",
          resetRan |-> FALSE, remaining |-> TOKEN_EXPIRY_MS,
          status |-> 0, answer |-> 0, post |-> 0, api |-> api,
          restore |-> [restore EXCEPT !.ran = "-"]]

\* Tokens and shared promises are told apart by identity: the n-th one is n.
FreshTok(w) == w.ids.tok + 1
FreshCyc(w) == w.ids.cyc + 1

\* the backend issues the next access token (login or refresh endpoint)
Issue(w) == [w EXCEPT !.ids.tok = @ + 1]


\* ============================================================ tokenRefresh.js

clearRefreshTimer(w) ==
    IF w.mgr.refreshTimer # 0
    THEN [w EXCEPT !.mgr.refreshTimer = 0, !.mgr.timerPending = FALSE]
    ELSE w

\* payload.exp * 1000 - Date.now() of the token the step handles; 0 when the
\* payload cannot be decoded.  w.remaining is what the token's exp claim says
\* at this moment: the full lifetime for a token the backend has just issued.
getTimeUntilExpiry(w, token) == IF token = 0 THEN 0 ELSE w.remaining

\* this.refreshTimer = setTimeout(...): the handle held before is overwritten.
\* untilExpiry and orphans are not fields of the manager: untilExpiry notes what
\* getTimeUntilExpiry would have returned for the token when the timer was
\* armed, orphans counts the timeouts still pending whose handle was overwritten.
armTimer(w, token, refreshIn) ==
    [w EXCEPT !.mgr.refreshTimer = token,
              !.mgr.timerPending = TRUE,
              !.mgr.refreshIn = refreshIn,
              !.mgr.untilExpiry = getTimeUntilExpiry(w, token),
              !.mgr.orphans = IF w.mgr.timerPending THEN @ + 1 ELSE @]

\* variant: the previous timer is not cleared first
scheduleRefreshNoClear(w, token, expiresIn) ==
    LET expiryMs == IF expiresIn # 0 THEN expiresIn * 1000 ELSE TOKEN_EXPIRY_MS
        refreshIn == expiryMs - REFRESH_BEFORE_EXPIRY_MS
    IN  IF token = 0 THEN w
        ELSE IF refreshIn <= 0 \/ refreshIn < MIN_REFRESH_IN_MS THEN w
        ELSE armTimer(w, token, refreshIn)

scheduleRefresh(w, token, expiresIn) ==
    LET w1 == clearRefreshTimer(w)
        expiryMs == IF expiresIn # 0 THEN expiresIn * 1000 ELSE TOKEN_EXPIRY_MS
        refreshIn == expiryMs - REFRESH_BEFORE_EXPIRY_MS
    IN  IF token = 0 THEN w1
        ELSE IF refreshIn <= 0 \/ refreshIn < MIN_REFRESH_IN_MS THEN w1
        ELSE armTimer(w1, token, refreshIn)

\* TRUE when triggerRefresh returns the existing promise
JoinsExisting(w) == w.mgr.isRefreshing /\ w.mgr.refreshPromise # 0

\* variant: a new shared promise is created on every call
triggerRefreshAnew(w) ==
    LET k == FreshCyc(w)
    IN  [w EXCEPT !.mgr.isRefreshing = TRUE,
                  !.mgr.refreshPromise = k,
                  !.mgr.resolvers = k,
                  !.shared = "pending",
                  !.ids.cyc = k]

triggerRefresh(w) ==
    IF JoinsExisting(w) THEN w
    ELSE LET k == FreshCyc(w)
         IN  [w EXCEPT !.mgr.isRefreshing = TRUE,
                       !.mgr.refreshPromise = k,
                       !.mgr.resolvers = k,
                       !.shared = "pending",
                       !.ids.cyc = k]

\* variant: the queue entry is resolved with the header it came with
ResolveEntryOldHeader(rq, token) == [rq EXCEPT !.qp = "resolved"]

\* promise.config.headers.Authorization = `Bearer ${token}`; promise.resolve(config)
ResolveEntry(rq, token) ==
    [rq EXCEPT !.hdr = IF token # 0 THEN token ELSE @, !.qp = "resolved"]

RejectEntry(rq, error) ==
    [rq EXCEPT !.qp = "rejected", !.qerr = error]

QueueHas(queue, r) == \E i \in 1..Len(queue) : queue[i] = r
InQueue(w, r) == QueueHas(w.mgr.failedQueue, r)

\* variant: the entries are settled but the queue is not cleared
processQueueKeep(w, error, token) ==
    [w EXCEPT
        !.req = [r \in Req |->
                    IF InQueue(w, r)
                    THEN IF error # NoErr THEN RejectEntry(w.req[r], error)
                         ELSE ResolveEntry(w.req[r], token)
                    ELSE w.req[r]]]

processQueue(w, error, token) ==
    [w EXCEPT
        !.req = [r \in Req |->
                    IF InQueue(w, r)
                    THEN IF error # NoErr THEN RejectEntry(w.req[r], error)
                         ELSE ResolveEntry(w.req[r], token)
                    ELSE w.req[r]],
        !.mgr.failedQueue = <<>>]

SettleShared(w, how) ==
    IF w.mgr.resolvers # 0
    THEN [w EXCEPT !.shared = how]
    ELSE w

onRefreshSuccess(w, newToken) ==
    LET w1 == [w EXCEPT !.mgr.isRefreshing = FALSE]
        w2 == SettleShared(w1, "resolved")
        w3 == processQueue(w2, NoErr, newToken)
        w4 == [w3 EXCEPT !.mgr.refreshPromise = 0, !.mgr.resolvers = 0]
    IN  scheduleRefresh(w4, newToken, 0)

\* variant: the failure is not passed on to the queue
onRefreshFailureKeepQueue(w, error) ==
    LET w1 == [w EXCEPT !.mgr.isRefreshing = FALSE]
        w2 == SettleShared(w1, "rejected")
        w4 == [w2 EXCEPT !.mgr.refreshPromise = 0, !.mgr.resolvers = 0]
    IN  clearRefreshTimer(w4)

onRefreshFailure(w, error) ==
    LET w1 == [w EXCEPT !.mgr.isRefreshing = FALSE]
        w2 == SettleShared(w1, "rejected")
        w3 == processQueue(w2, error, 0)
        w4 == [w3 EXCEPT !.mgr.refreshPromise = 0, !.mgr.resolvers = 0]
    IN  clearRefreshTimer(w4)

addToQueue(w, r) ==
    [w EXCEPT !.mgr.failedQueue = Append(@, r),
              !.req[r].qp = "pending"]

\* variant: the manager never reports a refresh in progress
neverRefreshing(w) == FALSE

isCurrentlyRefreshing(w) == w.mgr.isRefreshing

reset(w) ==
    LET w1 == clearRefreshTimer(w)
        w2 == [w1 EXCEPT !.mgr.isRefreshing = FALSE,
                         !.mgr.refreshPromise = 0,
                         !.mgr.resolvers = 0]
    IN  [w2 EXCEPT
            !.req = [r \in Req |->
                        IF InQueue(w2, r) THEN RejectEntry(w2.req[r], LogoutErr)
                        ELSE w2.req[r]],
            !.mgr.failedQueue = <<>>,
            !.resetRan = TRUE]

isTokenExpiredError(status, data) ==
    /\ status = 401
    /\ \/ Includes(data.error, "expired")
       \/ Includes(data.error, "invalid")
       \/ Includes(data.message, "expired")
       \/ Includes(data.message, "invalid")

\* ================================================================ authStore.js

\* user objects: "none" (null / undefined), "raw" (as the backend sends it, role
\* an object or a name), "normalized" (role a snake_case name, roleDetails added)
normalizeUserData(userData) ==
    IF userData = "none" THEN "none" ELSE "normalized"

\* variant: the token is not written to localStorage
setAuthNoPersist(w, user, accessToken) ==
    LET w1 == [w EXCEPT !.givenUser = user,
                        !.store.status = "authenticated",
                        !.store.user = normalizeUserData(user),
                        !.store.accessToken = accessToken]
    IN  scheduleRefresh(w1, accessToken, 0)

setAuth(w, user, accessToken) ==
    LET normalizedUser == IF normalizeUserData(user) # "none"
                          THEN normalizeUserData(user)
                          ELSE w.store.user
        w1 == [w EXCEPT !.givenUser = user,
                        !.store.ls = accessToken,
                        !.store.status = "authenticated",
                        !.store.user = normalizedUser,
                        !.store.accessToken = accessToken]
    IN  scheduleRefresh(w1, accessToken, 0)

\* logout(): the finally block, once logoutUser() has settled either way
logoutFinally(w) ==
    LET w1 == [w EXCEPT !.store.ls = 0,
                        !.store.status = "unauthenticated",
                        !.store.user = "none",
                        !.store.accessToken = 0,
                        !.logouts = @ - 1]
    IN  reset(w1)

\* logoutUser() is api.post("/auth/logout"): a request through the axios
\* instance.  logoutVia is an invocation of logout() whose POST is request r,
\* handled by the interceptor like any other.
IsLogoutCall(rq) == rq.url = "/auth/logout"

logoutVia(w, r) == [w EXCEPT !.req[r].url = "/auth/logout", !.logouts = @ + 1]

\* =============================================================== api/index.js

\* pc      position of the request in the interceptor
\* url     config.url
\* retry   config._retry;  hdr  config.headers.Authorization;  sends  dispatches
\* qp, qerr   the promise addToQueue returned (queuedRequest) and its rejection
\* newTok  refreshResponse.accessToken
\* err     what the caller's promise was rejected with
\* cyc     the shared promise current when the request joined or started a refresh
\* stale   reset() ran while the request's refresh call was on the wire
\* lost    a request that joined this request's refresh was settled by something
\*         other than the completion of this request's refresh call
\* by      cyc of the refresh call whose completion settled qp (-1: reset)
FreshReq == [pc |-> "new", url |-> "", retry |-> FALSE, hdr |-> 0, sends |-> 0,
             qp |-> "none", qerr |-> NoErr, err |-> NoErr,
             newTok |-> 0, cyc |-> 0, stale |-> FALSE, lost |-> FALSE, by |-> 0]

\* the locals of a handler that has returned are gone
Forget(rq) == [rq EXCEPT !.qp = "none", !.qerr = NoErr,
                         !.newTok = 0, !.cyc = 0, !.stale = FALSE, !.lost = FALSE,
                         !.by = 0]

\* the caller has its answer: the config is gone too (sends stays, as a record
\* of how often the request went out)
Finished(rq, pc, e) ==
    [Forget(rq) EXCEPT !.pc = pc, !.err = e, !.hdr = 0, !.retry = FALSE, !.url = ""]

\* variant: the header the config came with is left as it is
requestInterceptorKeep(w, r) == w

\* request interceptor: Authorization is rewritten when the store holds a token
requestInterceptor(w, r) ==
    LET token == w.store.accessToken
    IN  [w EXCEPT !.req[r].hdr = IF token # 0 THEN token ELSE @]

\* axiosInstance(config): run the request interceptor and put the request on the wire
dispatch(w, r) ==
    LET w1 == requestInterceptor(w, r)
    IN  [w1 EXCEPT !.req[r] = [Forget(@) EXCEPT !.pc = "flight", !.sends = @ + 1]]

\* logout(): the part before `await logoutUser()`.  w.post is the request its
\* POST /auth/logout goes out as: api.post runs the request interceptor, which
\* reads the store, before the handler that called logout() settles the promise
\* of its own request, so before the caller of that request resumes.  With
\* w.post = 0 the POST is not followed as a request: it is one that is answered
\* without passing the 401 branch of the response interceptor.
logout(w) ==
    IF w.post # 0
    THEN dispatch([logoutVia(w, w.post) EXCEPT !.post = 0], w.post)
    ELSE [w EXCEPT !.logouts = @ + 1]

\* ============================================ authStore.js: session restoration

\* who called getMe: initializeAuth or the sidebar
Callers == {"init", "sidebar"}

\* race     initializeAuth awaits Promise.race([getMe(), timeoutPromise])
\* calls    the request of the getMe call whose getMeApi() has not settled, by
\*          caller (0: none)
\* issued   getMe calls initializeAuth has made
\* ran      what the last step's initializeAuth call did ("-": no call,
\*          "skipped": a guard returned, "passed": it went on)
IdleRestore == [race |-> FALSE, calls |-> [c \in Callers |-> 0],
                issued |-> 0, ran |-> "-"]

\* getMe(): up to `await getMeApi()`; api.get("/auth/me") goes out as request r
getMeTry(w, c, r) ==
    dispatch([w EXCEPT !.store.status = "loading",
                       !.restore.calls[c] = r,
                       !.req[r].url = "/auth/me"], r)

\* getMe(): getMeApi() returned userData (accessToken 0: none in the answer)
getMeReturned(w, c, accessToken) ==
    LET newAccessToken == IF accessToken # 0 THEN accessToken ELSE w.store.accessToken
        w1 == [w EXCEPT !.store.status = "authenticated",
                        !.store.user = normalizeUserData("raw"),
                        !.store.accessToken = newAccessToken,
                        !.restore.calls[c] = 0]
    IN  scheduleRefresh(w1, newAccessToken, 0)

\* getMe(): the catch block; false is returned
getMeThrew(w, c) ==
    [w EXCEPT !.store.status = "unauthenticated",
              !.store.user = "none",
              !.store.accessToken = 0,
              !.restore.calls[c] = 0]

\* initializeAuth: getMe() of the race settled first (it never rejects); the
\* finally block
raceSettled(w, c) ==
    IF c = "init" /\ w.restore.race
    THEN [w EXCEPT !.restore.race = FALSE, !.store.isInitializing = FALSE]
    ELSE w

\* request r is the GET /auth/me of a getMe call that awaits it
IsGetMeCall(w, r) == \E c \in Callers : w.restore.calls[c] = r

\* getMeApi() of the getMe call with request r settled (e = NoErr: it returned;
\* w.answer: the accessToken in the answer), and getMe runs to its end
getMeResumes(w, r, e) ==
    LET c == CHOOSE c \in Callers : w.restore.calls[c] = r
    IN  raceSettled(IF e = NoErr THEN getMeReturned(w, c, w.answer)
                    ELSE getMeThrew(w, c), c)

\* variant: the rejection of the timeout is not acted on
raceTimeoutIgnored(w) == w

\* initializeAuth: the timeout rejected the race; catch and finally
raceTimedOut(w) ==
    [w EXCEPT !.store.ls = 0,
              !.store.status = "unauthenticated",
              !.store.user = "none",
              !.store.accessToken = 0,
              !.store.isInitializing = FALSE,
              !.restore.race = FALSE]

\* initializeAuth: from `set({ isInitializing: true })` to the await of the
\* race, or to the end when no token is stored
initializeAuthBody(w, r) ==
    LET w1 == [w EXCEPT !.store.isInitializing = TRUE, !.restore.ran = "passed"]
        token == w1.store.ls
    IN  IF token # 0
        THEN LET w2 == [w1 EXCEPT !.store.accessToken = token,
                                  !.store.status = "loading"]
             IN  [getMeTry(w2, "init", r) EXCEPT !.restore.race = TRUE,
                                              !.restore.issued = @ + 1]
        ELSE [w1 EXCEPT !.store.status = "unauthenticated",
                        !.store.isInitializing = FALSE]

\* variant: no guard
initializeAuthAnyway(w, r) == initializeAuthBody(w, r)

initializeAuth(w, r) ==
    LET state == w.store
        skipped == [w EXCEPT !.restore.ran = "skipped"]
    IN  IF state.isInitializing \/ state.status = "loading" THEN skipped
        ELSE IF state.status = "authenticated" \/ state.status = "unauthenticated"
        THEN skipped
        ELSE initializeAuthBody(w, r)

\* ============================================ errorHandler.js, errorMapping.js

\* new AppError(message, type, statusCode, details): the fields the constructor
\* assigns (message and timestamp left out).  statusCode 0 and details Null
\* stand for null.
Null == [null |-> TRUE]

AppError(type, statusCode, details) ==
    [name |-> "AppError", type |-> type, statusCode |-> statusCode, details |-> details]

\* HTTP status of a failed attempt; 0: no response (network error)
Statuses == {0, 401, 404, 408, 429, 500}

\* HTTP_STATUS_CONFIG[status] and its default: type, retry, maxRetries (0: not set)
getErrorConfig(status) ==
    CASE status = 401 -> [type |-> "AUTHENTICATION_ERROR", retry |-> FALSE, maxRetries |-> 0]
      [] status = 404 -> [type |-> "NOT_FOUND_ERROR", retry |-> FALSE, maxRetries |-> 0]
      [] status = 408 -> [type |-> "TIMEOUT_ERROR", retry |-> TRUE, maxRetries |-> 2]
      [] status = 429 -> [type |-> "RATE_LIMIT_ERROR", retry |-> TRUE, maxRetries |-> 0]
      [] status = 500 -> [type |-> "SERVER_ERROR", retry |-> TRUE, maxRetries |-> 3]
      [] OTHER -> [type |-> "UNKNOWN_ERROR", retry |-> FALSE, maxRetries |-> 0]

\* the error of a failed attempt as the second response interceptor rejects it
mapHttpError(status) ==
    IF status = 0
    THEN AppError("NETWORK_ERROR", 0, [retry |-> TRUE, maxRetries |-> 3])
    ELSE LET config == getErrorConfig(status)
         IN  AppError(config.type, 0,
                      [retry |-> config.retry, maxRetries |-> config.maxRetries])

\* error.metadata?.f is defined
HasMetadata(error, f) ==
    /\ "metadata" \in DOMAIN error
    /\ f \in DOMAIN error.metadata

isRetryableError(error) ==
    IF HasMetadata(error, "retry") /\ error.metadata.retry = FALSE THEN FALSE
    ELSE error.type \in {"NETWORK_ERROR", "TIMEOUT_ERROR", "SERVER_ERROR",
                          "RATE_LIMIT_ERROR"}

\* error.metadata?.maxRetries || 0
getMaxRetries(error) ==
    IF HasMetadata(error, "maxRetries") THEN error.metadata.maxRetries ELSE 0

\* ====================================================== api client (retry layer)

\* options of a call: retry (FALSE: `retry: false` was passed) and maxRetries
\* (-1: not passed)
RetryOptions == [retry : BOOLEAN, maxRetries : -1 .. MaxRetriesOption]

\* pc        idle, request (requestFn() awaited), sleep (sleep(delay) awaited),
\*           returned, thrown
\* attempt   the parameter attempt of the running executeWithRetry
\* invoked   how often requestFn was invoked for this call
\* failures  the statuses mapHttpError read from the errors of the attempts
\*           that failed
\* error     the error of the last failed attempt
\* req, url  the request requestFn() sent last (this.instance.get(url, ...)) and
\*           its url
IdleApi == [pc |-> "idle", options |-> [retry |-> TRUE, maxRetries |-> -1],
            attempt |-> 0, invoked |-> 0, failures |-> {}, error |-> Null,
            req |-> 0, url |-> ""]

\* `const response = await requestFn()` of executeWithRetry(requestFn, options,
\* attempt): requestFn() sends a request with a config of its own as request r
executeWithRetry(w, r, url, options, attempt) ==
    dispatch([w EXCEPT !.api.pc = "request",
                       !.api.options = options,
                       !.api.attempt = attempt,
                       !.api.invoked = @ + 1,
                       !.api.req = r,
                       !.api.url = url,
                       !.req[r] = [FreshReq EXCEPT !.url = url]], r)

\* the catch block of executeWithRetry
catchAttemptError(w, error) ==
    LET options == w.api.options
        maxRetries == IF options.maxRetries # -1 THEN options.maxRetries
                      ELSE getMaxRetries(error)
        shouldRetry == /\ options.retry
                       /\ isRetryableError(error)
                       /\ w.api.attempt < maxRetries
    IN  [w EXCEPT !.api.error = error,
                  !.api.pc = IF shouldRetry THEN "sleep" ELSE "thrown"]

\* request r is the one executeWithRetry awaits
IsApiCall(w, r) == w.api.pc = "request" /\ w.api.req = r

\* the request was sent again by the interceptor, axiosInstance(originalRequest):
\* a failure of it has passed both response interceptors of that inner call and
\* reaches the outer second interceptor as an AppError, which has no `response`
Replayed(rq) == rq.sends > 1

\* error.response?.status as mapHttpError reads it from the error e request rq
\* was rejected with (0: no response); w.status is the status of the answer
\* this step handles
StatusOf(w, rq, e) ==
    CASE Replayed(rq) -> 0
      [] e.kind = "http401" -> 401
      [] e.kind = "logout" -> 0
      [] OTHER -> w.status

\* requestFn() settled: the second response interceptor maps the error and
\* executeWithRetry returns the response or runs its catch block
apiResumes(w, rq, e) ==
    IF e = NoErr THEN [w EXCEPT !.api.pc = "returned"]
    ELSE LET status == StatusOf(w, rq, e)
         IN  catchAttemptError([w EXCEPT !.api.failures = @ \cup {status}],
                               mapHttpError(status))

\* ===================================== api/index.js: the response interceptor

\* `if (currentPath !== "/login") logout(...)`
logoutUnlessOnLogin(w, path) ==
    LET w1 == [w EXCEPT !.testedPath = path]
    IN  IF path # "/login" THEN logout(w1) ELSE w1

\* The promise of request r (rq before it settled) has settled with e and its
\* caller resumes: logout() (`await logoutUser()`) runs its finally, getMe()
\* its try or catch, executeWithRetry its return or catch, as the next
\* microtasks; no task comes in between.
callerResumes(w, r, rq, e) ==
    IF IsLogoutCall(rq) THEN logoutFinally(w)
    ELSE IF IsGetMeCall(w, r) THEN getMeResumes(w, r, e)
    ELSE IF IsApiCall(w, r) THEN apiResumes(w, rq, e)
    ELSE w

\* variant: every rejection also tears the session down
rejectWithLogout(w, r, e) ==
    callerResumes([logout(w) EXCEPT !.req[r] = Finished(@, "failed", e)],
                  r, w.req[r], e)

\* return Promise.reject(e)
rejectWith(w, r, e) ==
    callerResumes([w EXCEPT !.req[r] = Finished(@, "failed", e)],
                  r, w.req[r], e)

\* the response is handed to the caller
resolveWith(w, r) ==
    callerResumes([w EXCEPT !.req[r] = Finished(@, "done", NoErr)],
                  r, w.req[r], NoErr)

\* catch (refreshError) { ... } of the response interceptor
catchRefreshError(w, r, refreshError, currentPath) ==
    LET w1 == onRefreshFailure(w, refreshError)
        w2 == logoutUnlessOnLogin(w1, currentPath)
    IN  rejectWith(w2, r, refreshError)

\* variant: the _retry mark is not looked at
neverRetried(rq) == FALSE

\* `originalRequest._retry`
alreadyRetried(rq) == rq.retry

\* variant: the url of the request is not looked at
notAuthEndpoint(rq) == FALSE

\* `originalRequest.url?.includes("/auth/login") || ...includes("/auth/refresh")`
isAuthEndpoint(rq) ==
    Includes(rq.url, "/auth/login") \/ Includes(rq.url, "/auth/refresh")

\* response interceptor, error handler, status 401: up to the first await or return
on401(w, r, data, currentPath) ==
    IF isAuthEndpoint(w.req[r]) \/ alreadyRetried(w.req[r])
    THEN rejectWith(logoutUnlessOnLogin(w, currentPath), r, Http401(r))
    ELSE LET w1 == [w EXCEPT !.req[r].retry = TRUE]
         IN  IF isTokenExpiredError(401, data)
             THEN LET w2 == addToQueue(w1, r)
                  IN  IF isCurrentlyRefreshing(w2)
                      THEN [w2 EXCEPT !.req[r].pc = "joinWait",
                                      !.req[r].cyc = w2.mgr.refreshPromise]
                      ELSE LET w3 == triggerRefresh(w2)
                           IN  [w3 EXCEPT !.req[r].pc = "refreshCall",
                                          !.req[r].cyc = w3.mgr.refreshPromise]
             ELSE rejectWith(logoutUnlessOnLogin(w1, currentPath), r, Http401(r))

\* lines 179-186, after `await refreshToken()` returned {user, accessToken}
afterRefresh(w, r, user, accessToken) ==
    LET w1 == setAuth(w, user, accessToken)
        w2 == onRefreshSuccess(w1, accessToken)
    IN  [w2 EXCEPT !.req[r].pc = "ownerWait", !.req[r].newTok = accessToken]

\* lines 168-170 and 193-198: `await queuedRequest` resumed
resumeQueued(w, r, currentPath) ==
    IF w.req[r].qp = "resolved"
    THEN IF w.req[r].pc = "ownerWait"
         THEN dispatch([w EXCEPT !.req[r].hdr = w.req[r].newTok], r)
         ELSE dispatch(w, r)
    ELSE catchRefreshError(w, r, w.req[r].qerr, currentPath)

\* ================================================================== the state

IdleMgr == [isRefreshing |-> FALSE, refreshPromise |-> 0, resolvers |-> 0,
            failedQueue |-> <<>>, refreshTimer |-> 0, timerPending |-> FALSE,
            refreshIn |-> 0, untilExpiry |-> 0, orphans |-> 0]

\* importing  handleManualRefresh awaits `import("../../../features/auth/api")`
\* pending    its refreshToken() call is on the wire
\* cyc        the shared promise triggerRefresh returned to it
\* stale      reset() ran since the click
IdleManual == [importing |-> FALSE, pending |-> FALSE, cyc |-> 0, stale |-> FALSE]

\* the world after module load: no session, nothing sent
W0 == [mgr |-> IdleMgr,
       store |-> [status |-> "idle", user |-> "none", accessToken |-> 0, ls |-> 0,
                  isInitializing |-> FALSE],
       req |-> [r \in Req |-> FreshReq],
       shared |-> "none",
       logouts |-> 0,
       ids |-> [tok |-> 0, cyc |-> 0],
       testedPath |-> "",
       givenUser |-> "-",
       resetRan |-> FALSE,
       remaining |-> TOKEN_EXPIRY_MS,
       status |-> 0,
       answer |-> 0,
       post |-> 0,
       api |-> IdleApi,
       restore |-> IdleRestore]

\* the variables hold the world w
Holds(w) ==
    /\ mgr = w.mgr
    /\ store = w.store
    /\ req = w.req
    /\ shared = w.shared
    /\ logouts = w.logouts
    /\ ids = w.ids
    /\ testedPath = w.testedPath
    /\ givenUser = w.givenUser
    /\ api = w.api
    /\ restore = w.restore

Init ==
    /\ Holds(W0)
    /\ manual = IdleManual
    /\ nCalls = 0

\* a continuation of an await on a settled promise is waiting to run
Resumable(rq) == rq.pc \in {"joinWait", "ownerWait"} /\ rq.qp \in {"resolved", "rejected"}
MicrotaskPending == \E r \in Req : Resumable(req[r])

\* refresh calls on the wire
OutstandingCalls ==
    Cardinality({r \in Req : req[r].pc = "refreshCall"}) + (IF manual.pending THEN 1 ELSE 0)

\* The world becomes the next state.  src is the refresh cycle of the network
\* call whose completion runs this step (0 when the step completes no call) and
\* who its owner: they are recorded on the promises the step settles (-1 on
\* those reset() rejected).
Commit(world, src, owner) ==
    \E w \in {world} :
    /\ mgr' = w.mgr
    /\ store' = w.store
    /\ shared' = w.shared
    /\ logouts' = w.logouts
    /\ ids' = w.ids
    /\ testedPath' = w.testedPath
    /\ givenUser' = w.givenUser
    /\ api' = w.api
    /\ restore' = w.restore
    /\ req' = [r \in Req |->
                 LET settled == req[r].qp = "pending" /\ w.req[r].qp \in {"resolved", "rejected"}
                     calling == w.req[r].pc = "refreshCall"
                     joinerLost ==
                         /\ calling
                         /\ r # owner
                         /\ \E q \in Req : /\ req[q].pc = "joinWait"
                                           /\ req[q].cyc = w.req[r].cyc
                                           /\ req[q].qp = "pending"
                                           /\ w.req[q].qp # "pending"
                 IN  [w.req[r] EXCEPT
                         !.by = IF ~settled THEN @
                                ELSE IF w.req[r].qerr = LogoutErr THEN -1
                                ELSE src,
                         !.lost = @ \/ joinerLost,
                         !.stale = @ \/ (calling /\ w.resetRan)]]

\* ------------------------------------------------------------------- actions

\* the ids of requests are interchangeable: they are used in order
NextToSend(r) == req[r].pc = "new" /\ \A q \in Req : q < r => req[q].pc # "new"

\* useLogin onSuccess: setAuth({user, accessToken}) with the token the backend issued
Login ==
    /\ ~MicrotaskPending
    /\ store.accessToken = 0
    /\ ids.tok < MaxTok
    /\ Commit(setAuth(Issue(World), "raw", FreshTok(World)), 0, 0)
    /\ UNCHANGED <<manual, nCalls>>

\* a caller sends a request through the axios instance
Send(r) ==
    /\ ~MicrotaskPending
    /\ NextToSend(r)
    /\ \E url \in Urls : Commit(dispatch([World EXCEPT !.req[r].url = url], r), 0, 0)
    /\ UNCHANGED <<manual, nCalls>>

\* the statuses a failed answer can have when executeWithRetry awaits request r
\* (the other callers do not look at the status)
StatusesFor(r, statuses) == IF IsApiCall(World, r) THEN statuses ELSE {0}

\* the status of the answer when refreshToken() threw (0: no response, or
\* `success: false`)
RefreshStatuses == {0, 401, 500}

\* response interceptor, success handler.  To a getMe call the answer says how
\* long the token lives and may carry an accessToken (the one issued last).
RespOK(r) ==
    /\ ~MicrotaskPending
    /\ req[r].pc = "flight"
    /\ \E remaining \in (IF IsGetMeCall(World, r) THEN Lifetimes ELSE {TOKEN_EXPIRY_MS}),
          accessToken \in (IF IsGetMeCall(World, r) THEN {0, ids.tok} ELSE {0}) :
         Commit(resolveWith([World EXCEPT !.remaining = remaining,
                                          !.answer = accessToken], r), 0, 0)
    /\ UNCHANGED <<manual, nCalls>>

\* response interceptor, error handler, status other than 401 (or no response)
RespError(r) ==
    /\ ~MicrotaskPending
    /\ req[r].pc = "flight"
    /\ \E status \in StatusesFor(r, Statuses \ {401}) :
         Commit(rejectWith([World EXCEPT !.status = status], r, HttpErr(r)), 0, 0)
    /\ UNCHANGED <<manual, nCalls>>

\* response interceptor, error handler, status 401 with a body out of bodies
Resp401From(world, r, bodies) ==
    /\ ~MicrotaskPending
    /\ req[r].pc = "flight"
    /\ \E data \in bodies, currentPath \in Paths :
         LET w == on401(world, r, data, currentPath)
         IN  /\ w.ids.cyc <= MaxCycles
             /\ Commit(w, 0, 0)
             /\ nCalls' = IF w.req[r].pc = "refreshCall" THEN nCalls + 1 ELSE nCalls
    /\ UNCHANGED manual

Resp401With(r, bodies) == Resp401From(World, r, bodies)

Resp401(r) == Resp401With(r, Bodies)

\* `await refreshToken()` returned
RefreshOK(r) ==
    /\ ~MicrotaskPending
    /\ req[r].pc = "refreshCall"
    /\ ids.tok < MaxTok
    /\ \E user \in {"none", "raw"} :
         Commit(afterRefresh(Issue(World), r, user, FreshTok(World)), req[r].cyc, r)
    /\ UNCHANGED <<manual, nCalls>>

\* `await refreshToken()` threw (network error, error status or success: false)
RefreshFailFrom(world, r) ==
    /\ ~MicrotaskPending
    /\ req[r].pc = "refreshCall"
    /\ \E currentPath \in Paths, status \in StatusesFor(r, RefreshStatuses) :
         Commit(catchRefreshError([world EXCEPT !.status = status], r,
                                  RefreshErr(r), currentPath), req[r].cyc, r)
    /\ UNCHANGED <<manual, nCalls>>

RefreshFail(r) == RefreshFailFrom(World, r)

\* continuation of `await queuedRequest` of a request that joined (line 168)
JoinResume(r) ==
    /\ req[r].pc = "joinWait"
    /\ Resumable(req[r])
    /\ \E currentPath \in Paths, status \in StatusesFor(r, RefreshStatuses) :
         Commit(resumeQueued([World EXCEPT !.status = status], r, currentPath), 0, 0)
    /\ UNCHANGED <<manual, nCalls>>

\* continuation of `await queuedRequest` of the request that refreshed (line 193)
OwnerResumeFrom(world, r) ==
    /\ req[r].pc = "ownerWait"
    /\ Resumable(req[r])
    /\ \E currentPath \in Paths, status \in StatusesFor(r, RefreshStatuses) :
         Commit(resumeQueued([world EXCEPT !.status = status], r, currentPath), 0, 0)
    /\ UNCHANGED <<manual, nCalls>>

OwnerResume(r) == OwnerResumeFrom(World, r)

\* handleManualRefresh up to `await import(...)`; the button is disabled
\* without a token and while the component's own refresh runs
ManualClick ==
    /\ ~MicrotaskPending
    /\ store.accessToken # 0
    /\ ~manual.importing
    /\ ~manual.pending
    /\ LET w == triggerRefresh(World)
       IN  /\ w.ids.cyc <= MaxCycles
           /\ Commit(w, 0, 0)
           /\ manual' = [importing |-> TRUE, pending |-> FALSE,
                         cyc |-> w.mgr.refreshPromise, stale |-> FALSE]
    /\ UNCHANGED nCalls

\* handleManualRefresh: the import resolved, refreshToken() sends POST /auth/refresh
ManualCall ==
    /\ ~MicrotaskPending
    /\ manual.importing
    /\ Commit(World, 0, 0)
    /\ manual' = [manual EXCEPT !.importing = FALSE, !.pending = TRUE]
    /\ UNCHANGED nCalls

\* handleManualRefresh, after `await refreshToken()` returned
ManualOK ==
    /\ ~MicrotaskPending
    /\ manual.pending
    /\ ids.tok < MaxTok
    /\ \E user \in {"none", "raw"} :
         Commit(onRefreshSuccess(setAuth(Issue(World), user, FreshTok(World)),
                                 FreshTok(World)),
                manual.cyc, Manual)
    /\ manual' = IdleManual
    /\ UNCHANGED nCalls

\* handleManualRefresh, catch
ManualFail ==
    /\ ~MicrotaskPending
    /\ manual.pending
    /\ Commit(onRefreshFailure(World, RefreshErr(Manual)), manual.cyc, Manual)
    /\ manual' = IdleManual
    /\ UNCHANGED nCalls

\* the setTimeout callback of scheduleRefresh
TimerFire ==
    /\ ~MicrotaskPending
    /\ mgr.timerPending
    /\ LET w == triggerRefresh([World EXCEPT !.mgr.timerPending = FALSE])
       IN  w.ids.cyc <= MaxCycles /\ Commit(w, 0, 0)
    /\ UNCHANGED <<manual, nCalls>>

\* the sidebar calls getMe(); its GET /auth/me is request r
GetMeStart(r) ==
    /\ ~MicrotaskPending
    /\ NextToSend(r)
    /\ store.accessToken # 0
    /\ store.status # "loading"
    /\ restore.calls["sidebar"] = 0
    /\ Commit(getMeTry(World, "sidebar", r), 0, 0)
    /\ UNCHANGED <<manual, nCalls>>

\* the caller of a settled request is done with it: a later call is a new
\* request (the slot executeWithRetry sends its next attempt in is kept)
Recycle(r) ==
    /\ req[r].pc \in {"done", "failed"}
    /\ ~(api.pc = "sleep" /\ api.req = r)
    /\ Commit([World EXCEPT !.req[r] = FreshReq], 0, 0)
    /\ UNCHANGED <<manual, nCalls>>

\* LogoutModalPage: the user confirms the logout
UserLogout ==
    /\ ~MicrotaskPending
    /\ store.status = "authenticated"
    /\ logouts < MaxUserLogouts
    /\ Commit(logout(World), 0, 0)
    /\ UNCHANGED <<manual, nCalls>>

\* logout() invocations whose POST /auth/logout is one of the requests
LogoutCalls == {r \in Req : IsLogoutCall(req[r])}

\* logoutUser() settled, resolved or rejected alike: the finally block of logout
LogoutSettle ==
    /\ ~MicrotaskPending
    /\ logouts > Cardinality(LogoutCalls)
    /\ Commit(logoutFinally(World), -1, 0)
    /\ manual' = [manual EXCEPT !.stale = @ \/ manual.pending \/ manual.importing]
    /\ UNCHANGED nCalls

Next ==
    \/ Login
    \/ \E r \in Req : Send(r)
    \/ \E r \in Req : RespOK(r)
    \/ \E r \in Req : RespError(r)
    \/ \E r \in Req : Resp401(r)
    \/ \E r \in Req : RefreshOK(r)
    \/ \E r \in Req : RefreshFail(r)
    \/ \E r \in Req : JoinResume(r)
    \/ \E r \in Req : OwnerResume(r)
    \/ ManualClick
    \/ ManualCall
    \/ ManualOK
    \/ ManualFail
    \/ TimerFire
    \/ UserLogout
    \/ LogoutSettle

Spec == Init /\ [][Next]_vars

\* Every network call completes and every continuation runs: responses arrive,
\* refreshToken() and logoutUser() settle, awaits on settled promises resume.
\* Clicks, timers and new requests may or may not happen.
FairSpec ==
    /\ Init
    /\ [][Next]_vars
    /\ \A r \in Req : WF_vars(RespOK(r) \/ RespError(r) \/ Resp401(r))
    /\ \A r \in Req : WF_vars(RefreshOK(r) \/ RefreshFail(r))
    /\ \A r \in Req : WF_vars(JoinResume(r))
    /\ \A r \in Req : WF_vars(OwnerResume(r))
    /\ WF_vars(ManualCall)
    /\ WF_vars(ManualOK \/ ManualFail)
    /\ WF_vars(LogoutSettle)

\* ------------------------------------------- the scenario of the first refresh
\* A session is open, the manager is idle and n requests went out with the
\* login token.  Each gets a 401 the classification takes for an expired token;
\* the answers to the replays are free.  No click, no timer, no new login.

RECURSIVE SendFirst(_, _)
SendFirst(w, n) ==
    IF n = 0 THEN w
    ELSE dispatch([SendFirst(w, n - 1) EXCEPT !.req[n].url = "/tours"], n)

ExpiredBodies == {b \in Bodies : isTokenExpiredError(401, b)}

ScenarioInit ==
    /\ \E n \in 1..NReq : Holds(SendFirst(setAuth(Issue(W0), "raw", FreshTok(W0)), n))
    /\ manual = IdleManual
    /\ nCalls = 0

FirstResp401(r) == req[r].sends = 1 /\ Resp401With(r, ExpiredBodies)
ReplayOK(r) == req[r].sends = 2 /\ RespOK(r)
ReplayError(r) == req[r].sends = 2 /\ RespError(r)
Replay401(r) == req[r].sends = 2 /\ Resp401(r)

ScenarioNext ==
    \/ \E r \in Req : FirstResp401(r)
    \/ \E r \in Req : ReplayOK(r)
    \/ \E r \in Req : ReplayError(r)
    \/ \E r \in Req : Replay401(r)
    \/ \E r \in Req : RefreshOK(r)
    \/ \E r \in Req : RefreshFail(r)
    \/ \E r \in Req : JoinResume(r)
    \/ \E r \in Req : OwnerResume(r)
    \/ LogoutSettle

SpecScenario ==
    /\ ScenarioInit
    /\ [][ScenarioNext]_vars
    /\ \A r \in Req : WF_vars(JoinResume(r))
    /\ \A r \in Req : WF_vars(OwnerResume(r))

\* ====================================================================== claims

\* ---- C1
\* the refresh call of the first cycle is on the wire, started by request r
FirstCall(r) == req[r].pc = "refreshCall" /\ req[r].cyc = 1

\* while the first call is on the wire it is the only call ever started, and
\* every other request is not yet sent, still in flight or waiting in the queue
C1_DuringFirstCall ==
    \A r \in Req :
        FirstCall(r) =>
            /\ nCalls = 1
            /\ OutstandingCalls = 1
            /\ \A q \in Req \ {r} :
                 /\ req[q].pc \in {"new", "flight", "joinWait"}
                 /\ req[q].pc = "joinWait" =>
                       /\ req[q].qp = "pending"
                       /\ req[q].cyc = 1
                       /\ InQueue(World, q)

\* the first call returns a token: the store holds it and every waiting request
\* is resolved with it
C1_SuccessStep ==
    \A r \in Req :
        (FirstCall(r) /\ req'[r].pc = "ownerWait") =>
            /\ store'.accessToken = ids'.tok
            /\ ids'.tok = ids.tok + 1
            /\ req'[r].qp = "resolved"
            /\ req'[r].newTok = ids'.tok
            /\ \A q \in Req :
                 req[q].pc = "joinWait" =>
                     /\ req'[q].qp = "resolved"
                     /\ req'[q].hdr = ids'.tok

\* a request resolved by the first cycle goes out again with the new token
C1_ReplayStep ==
    \A q \in Req :
        (Resumable(req[q]) /\ req[q].qp = "resolved" /\ req[q].cyc = 1
                           /\ req'[q] # req[q]) =>
            /\ req'[q].pc = "flight"
            /\ req'[q].sends = 2
            /\ store.accessToken = ids.tok
            /\ req'[q].hdr = ids.tok
            /\ nCalls' = nCalls

C1_Replayed ==
    \A q \in Req :
        (req[q].cyc = 1 /\ req[q].qp = "resolved")
            ~> (req[q].pc = "flight" /\ req[q].sends = 2)

\* C1 (as amended): from an idle manager, the first expired 401 starts one
\* refresh call; every expired 401 handled while that call is on the wire starts
\* no further call and waits in the queue; when the call succeeds, all these
\* requests are replayed, each once, with the one token it returned.
C1_SingleFlight ==
    /\ []C1_DuringFirstCall
    /\ [][C1_SuccessStep /\ C1_ReplayStep]_vars
    /\ C1_Replayed

\* all requests of the scenario are out again with the refreshed token after
\* one refresh call
C1_Witness ==
    /\ nCalls = 1
    /\ store.accessToken = 2
    /\ \A r \in Req : /\ req[r].pc = "flight"
                      /\ req[r].sends = 2
                      /\ req[r].hdr = store.accessToken

\* C1 (as stated): whatever the order of the 401 responses, exactly one call to
\* the refresh endpoint is made.
C1_ExactlyOneCall == nCalls <= 1

\* ---- C2
\* C2: in every reachable state at most one call to the refresh endpoint is
\* outstanding.
C2_AtMostOneOutstanding == OutstandingCalls <= 1

\* ---- C3
C3_JoinStep ==
    \A r \in Req :
        /\ (req[r].pc = "flight" /\ req'[r].pc = "joinWait") =>
              /\ mgr.isRefreshing
              /\ QueueHas(mgr'.failedQueue, r)
              /\ req'[r].qp = "pending"
              /\ nCalls' = nCalls
              /\ OutstandingCalls' = OutstandingCalls
        /\ (req[r].pc = "flight" /\ req'[r].pc = "refreshCall") => ~mgr.isRefreshing
        /\ req[r].pc = "joinWait" => req'[r].pc \in {"joinWait", "flight", "failed"}
        /\ (req[r].pc = "joinWait" /\ req'[r].pc # "joinWait") =>
              req[r].qp \in {"resolved", "rejected"}
        /\ (req[r].pc = "joinWait" /\ req[r].qp = "pending" /\ req'[r].qp # "pending") =>
              /\ ~mgr'.isRefreshing
              /\ mgr'.failedQueue = <<>>
              /\ mgr'.refreshPromise = 0
              /\ req'[r].by \in {req[r].cyc, -1}

\* C3: a request whose expired 401 is handled while the manager is refreshing
\* is put in the queue and starts no refresh call; it is replayed or rejected
\* only once its queue entry was settled, and its entry is settled only by the
\* completion (onRefreshSuccess / onRefreshFailure) of the refresh that was in
\* flight when it joined, or by reset.
C3_JoinCorrect == [][C3_JoinStep]_vars

\* ---- C4
\* C4: every request placed in the queue is eventually resolved or rejected,
\* whatever put the manager into the refreshing state, provided every network
\* call completes.
C4_NoRequestHangs ==
    \A r \in Req : (req[r].qp = "pending") ~> (req[r].qp # "pending")

\* ---- C5
\* request r's refresh call returns a token after reset() ran during the call
StaleSuccess(r) ==
    /\ req[r].pc = "refreshCall"
    /\ req[r].stale
    /\ req'[r].pc = "ownerWait"

\* C5: a refresh call that succeeds after logout/reset happened during it
\* changes neither the auth store nor the refresh manager.
C5_StaleIgnored ==
    [][\A r \in Req : StaleSuccess(r) => (store' = store /\ mgr' = mgr)]_vars

\* ---- C6
\* request r's refresh call failed: the interceptor's catch has run
RefreshFailed(r) == req[r].pc = "refreshCall" /\ req'[r].pc = "failed"

C6_FailStep ==
    \A r \in Req :
        RefreshFailed(r) =>
            /\ req'[r].err = RefreshErr(r)
            /\ req'[r].sends = req[r].sends
            /\ \A q \in Req \ {r} :
                 InQueue(World, q) =>
                     /\ req'[q].qp = "rejected"
                     /\ req'[q].qerr = RefreshErr(r)
                     /\ req'[q].sends = req[q].sends
            /\ mgr'.failedQueue = <<>>
            /\ ~mgr'.isRefreshing
            /\ mgr'.refreshTimer = 0

\* a request whose queue entry was rejected fails with that error, unsent
C6_RejectedStep ==
    \A q \in Req :
        (Resumable(req[q]) /\ req[q].qp = "rejected" /\ req'[q] # req[q]) =>
            /\ req'[q].pc = "failed"
            /\ req'[q].err = req[q].qerr
            /\ req'[q].sends = req[q].sends

\* C6 (as amended): when the refresh call fails with error E, the request that
\* triggered it and every request waiting in the queue at that moment are
\* rejected with E and none of them is replayed.
C6_FailureFanOut == [][C6_FailStep /\ C6_RejectedStep]_vars

\* the trigger and a request that had joined both failed with the trigger's E
C6_Witness ==
    \E r, q \in Req :
        /\ r # q
        /\ req[r].pc = "failed" /\ req[r].err = RefreshErr(r) /\ req[r].sends = 1
        /\ req[q].pc = "failed" /\ req[q].err = RefreshErr(r) /\ req[q].sends = 1

\* C6 (as stated): when the refresh call fails with E, every request queued
\* during that refresh is rejected with E: none was settled by anything else.
C6_AllJoinersGetE ==
    [][C6_FailStep /\ \A r \in Req : RefreshFailed(r) => ~req[r].lost]_vars

\* ---- C7
\* something happens to a replayed request in flight: its response arrives
C7_RetryStep ==
    \A r \in Req :
        (req[r].pc = "flight" /\ req[r].retry /\ req'[r] # req[r]) =>
            /\ req'[r].pc \in {"done", "failed"}
            /\ mgr' = mgr
            /\ shared' = shared
            /\ nCalls' = nCalls
            /\ OutstandingCalls' = OutstandingCalls

C7_SentTwiceAtMost ==
    \A r \in Req :
        /\ req[r].sends <= 2
        /\ req[r].pc = "flight" => (req[r].retry <=> req[r].sends = 2)
        /\ req[r].pc \in {"joinWait", "refreshCall", "ownerWait"} => req[r].sends = 1

\* C7: a request marked _retry that gets a 401 again is neither queued nor
\* starts a refresh, it fails; each request is sent at most twice.
C7_NoDoubleRetry == []C7_SentTwiceAtMost /\ [][C7_RetryStep]_vars

\* a replayed request got a 401 again and failed
C7_Witness ==
    \E r \in Req : /\ req[r].pc = "failed"
                   /\ req[r].sends = 2
                   /\ req[r].err = Http401(r)

\* ---- C8
\* request r's refresh call returned a token
RefreshSucceeded(r) == req[r].pc = "refreshCall" /\ req'[r].pc = "ownerWait"

C8_SuccessStep ==
    \A r \in Req :
        RefreshSucceeded(r) =>
            /\ ids'.tok = ids.tok + 1
            /\ store'.accessToken = ids'.tok
            /\ req'[r].newTok = ids'.tok
            /\ mgr'.refreshTimer = ids'.tok
            /\ mgr'.timerPending
            /\ mgr'.failedQueue = <<>>
            /\ \A q \in Req :
                 InQueue(World, q) =>
                     /\ req'[q].qp = "resolved"
                     /\ req'[q].hdr = ids'.tok
            /\ req[r].qp = "rejected" => req'[r].qp = "rejected"

\* a request whose queue entry was resolved goes out once more, with the token
\* of the store
C8_ResolvedStep ==
    \A q \in Req :
        (Resumable(req[q]) /\ req[q].qp = "resolved" /\ req'[q] # req[q]) =>
            /\ req'[q].pc = "flight"
            /\ req'[q].sends = req[q].sends + 1
            /\ req'[q].retry
            /\ store.accessToken = ids.tok
            /\ req'[q].hdr = ids.tok

\* C8 (as amended): after a refresh call returned token B, every request waiting
\* in the queue at that moment is resubmitted exactly once with B and a timer is
\* armed for B; the request that triggered the call is resubmitted with B unless
\* its queue entry was rejected by a reset in the meantime.
C8_ReplayOnce == [][C8_SuccessStep /\ C8_ResolvedStep]_vars

\* the refresh returned: the joined request holds the new token, the trigger is
\* about to resume, the timer is armed for the new token
C8_Witness ==
    \E r, q \in Req :
        /\ r # q
        /\ req[r].pc = "ownerWait" /\ req[r].qp = "resolved"
        /\ req[r].newTok = store.accessToken
        /\ req[q].pc = "joinWait" /\ req[q].qp = "resolved"
        /\ req[q].hdr = store.accessToken
        /\ mgr.refreshTimer = store.accessToken /\ mgr.timerPending

\* C8 (as stated): after a successful refresh every request that was queued for
\* it, and the request that triggered it, is resubmitted with the new token.
C8_AllResubmitted ==
    [][C8_SuccessStep /\ \A r \in Req :
            RefreshSucceeded(r) => (req'[r].qp = "resolved" /\ ~req[r].lost)]_vars

\* ---- C9
\* C9: a request that joined the queue during refresh cycle k is resolved only
\* by the completion of the refresh call of cycle k.
C9_ResolvedByOwnCycle ==
    \A r \in Req :
        (req[r].pc = "joinWait" /\ req[r].qp = "resolved") => req[r].by = req[r].cyc

\* ---- C10
\* the finally block of logout ran: reset() was called
ResetRan == logouts' < logouts

\* C10: reset() rejects every queued request with the session-ended error,
\* empties the queue, cancels the timer, rejects the shared refresh outcome in
\* flight and leaves the manager idle.
C10_ResetCorrect ==
    [][ResetRan =>
          /\ \A q \in Req : InQueue(World, q) =>
                /\ req'[q].qp = "rejected"
                /\ req'[q].qerr = LogoutErr
          /\ mgr'.failedQueue = <<>>
          /\ mgr'.refreshTimer = 0
          /\ ~mgr'.timerPending
          /\ ~mgr'.isRefreshing
          /\ mgr'.refreshPromise = 0
          /\ shared = "pending" => shared' = "rejected"]_vars

\* ---- C11
\* the timeout of the current timer handle has fired
TimerFired == mgr.refreshTimer # 0 /\ ~mgr.timerPending

\* C11: when the proactive timer fires while the session is authenticated, a
\* refresh call is issued, the new token is installed and the manager
\* eventually is idle again with a new timer armed.
C11_ProactiveRefresh ==
    (TimerFired /\ mgr.isRefreshing /\ store.status = "authenticated")
        ~> (~mgr.isRefreshing /\ mgr.timerPending)

\* ---- C12
C12_IdleMeansEmpty ==
    /\ ~mgr.isRefreshing => mgr.failedQueue = <<>>
    /\ \A r \in Req : InQueue(World, r) => (mgr.isRefreshing /\ req[r].qp = "pending")

\* the manager leaves the refreshing state: every entry is settled, none is left
C12_DrainStep ==
    (mgr.isRefreshing /\ ~mgr'.isRefreshing) =>
        /\ mgr'.failedQueue = <<>>
        /\ \A r \in Req : InQueue(World, r) => req'[r].qp # "pending"

\* C12: at every suspension point an idle manager has an empty queue; a request
\* is in the queue only while the manager is refreshing, and all queue entries
\* are resolved or rejected in the step that returns the manager to idle.
C12_DrainBeforeIdle == []C12_IdleMeansEmpty /\ [][C12_DrainStep]_vars

\* the manager is idle again with an empty queue, a waiter was rejected by the drain
C12_Witness ==
    /\ ~mgr.isRefreshing
    /\ mgr.failedQueue = <<>>
    /\ \E r \in Req : req[r].pc = "joinWait" /\ req[r].qp = "rejected"

\* ---- C13
\* the 401 bodies that say the credential is invalid and do not say it expired
InvalidBodies ==
    {b \in Bodies : /\ Includes(b.error, "invalid") \/ Includes(b.message, "invalid")
                    /\ ~Includes(b.error, "expired")
                    /\ ~Includes(b.message, "expired")}

Invalid401(r) == Resp401With(r, InvalidBodies)

\* the program with a backend whose every 401 says "invalid token"
InvalidNext ==
    \/ Login
    \/ \E r \in Req : Send(r)
    \/ \E r \in Req : RespOK(r)
    \/ \E r \in Req : RespError(r)
    \/ \E r \in Req : Invalid401(r)
    \/ \E r \in Req : RefreshOK(r)
    \/ \E r \in Req : RefreshFail(r)
    \/ \E r \in Req : JoinResume(r)
    \/ \E r \in Req : OwnerResume(r)
    \/ ManualClick
    \/ ManualCall
    \/ ManualOK
    \/ ManualFail
    \/ TimerFire
    \/ UserLogout
    \/ LogoutSettle

SpecInvalid == Init /\ [][InvalidNext]_vars

\* C13: when every 401 says the credential is invalid, the response
\* interceptor never starts a refresh call and never puts a request in the
\* queue: no request waits on a queue promise or on refreshToken().
C13_InvalidIsTerminal ==
    /\ nCalls = 0
    /\ mgr.failedQueue = <<>>
    /\ \A r \in Req : req[r].pc \notin {"joinWait", "refreshCall", "ownerWait"}

\* ---- C14
\* request r went to the login endpoint or is a replay, and its answer arrives
GuardedAnswer(r) ==
    /\ req[r].pc = "flight"
    /\ req[r].url = "/auth/login" \/ req[r].retry
    /\ req'[r].pc # "flight"

\* the answer was a 401: the caller gets that error
Guarded401(r) == GuardedAnswer(r) /\ req'[r].err.kind = "http401"

C14_GuardStep ==
    \A r \in Req :
        /\ GuardedAnswer(r) =>
              /\ req'[r].pc \in {"done", "failed"}
              /\ req'[r].qp = "none"
              /\ mgr' = mgr
              /\ store' = store
              /\ nCalls' = nCalls
              /\ OutstandingCalls' = OutstandingCalls
        /\ Guarded401(r) =>
              /\ req'[r].pc = "failed"
              /\ req'[r].err = Http401(r)
              /\ testedPath' \in Paths
              /\ logouts' = logouts + (IF testedPath' # "/login" THEN 1 ELSE 0)

\* C14: a 401 on the login endpoint or on a request already retried once never
\* starts a refresh (manager, store and refresh calls are untouched, the
\* request is not queued) and rejects the caller with that 401; logout is
\* invoked when the current page is not /login and is not invoked on /login.
C14_GuardedTerminal == [][C14_GuardStep]_vars

\* a replay was answered 401 while the page was not /login and logout() runs
C14_Witness ==
    /\ testedPath = "/app"
    /\ logouts > 0
    /\ \E r \in Req : /\ req[r].pc = "failed"
                      /\ req[r].err = Http401(r)
                      /\ req[r].sends = 2

\* C14 as stated: every such 401 invokes logout
C14_AlwaysTeardown == [][\A r \in Req : Guarded401(r) => logouts' = logouts + 1]_vars

\* ---- C15
\* the continuation of a request that joined a refresh runs on a rejected promise
JoinerRejected(r) ==
    /\ req[r].pc = "joinWait"
    /\ req[r].qp = "rejected"
    /\ req'[r].pc = "failed"

\* C15: a queued request whose promise is rejected only propagates the
\* rejection: the step invokes no logout and leaves the manager as it is.
C15_JoinerOnlyPropagates ==
    [][\A r \in Req : JoinerRejected(r) =>
            /\ req'[r].err = req[r].qerr
            /\ logouts' = logouts
            /\ mgr' = mgr]_vars

\* ---- C16
\* LogoutModalPage: the user confirms the logout; logoutUser() is request r
UserLogoutCall(r) ==
    /\ ~MicrotaskPending
    /\ NextToSend(r)
    /\ store.status = "authenticated"
    /\ Commit(dispatch(logoutVia(World, r), r), 0, 0)
    /\ UNCHANGED <<manual, nCalls>>

\* the program when the POST /auth/logout of the user's logout is followed
\* through the interceptors (no manual refresh)
LogoutNext ==
    \/ Login
    \/ \E r \in Req : Send(r)
    \/ \E r \in Req : UserLogoutCall(r)
    \/ \E r \in Req : RespOK(r)
    \/ \E r \in Req : RespError(r)
    \/ \E r \in Req : Resp401(r)
    \/ \E r \in Req : RefreshOK(r)
    \/ \E r \in Req : RefreshFail(r)
    \/ \E r \in Req : JoinResume(r)
    \/ \E r \in Req : OwnerResume(r)
    \/ TimerFire
    \/ LogoutSettle

\* every network call completes and every continuation runs
SpecLogout ==
    /\ Init
    /\ [][LogoutNext]_vars
    /\ \A r \in Req : WF_vars(RespOK(r) \/ RespError(r) \/ Resp401(r))
    /\ \A r \in Req : WF_vars(RefreshOK(r) \/ RefreshFail(r))
    /\ \A r \in Req : WF_vars(JoinResume(r))
    /\ \A r \in Req : WF_vars(OwnerResume(r))
    /\ WF_vars(LogoutSettle)

SessionCleared ==
    /\ store.status = "unauthenticated"
    /\ store.user = "none"
    /\ store.accessToken = 0
    /\ store.ls = 0
    /\ mgr.refreshTimer = 0
    /\ ~mgr.timerPending
    /\ mgr.failedQueue = <<>>
    /\ ~mgr.isRefreshing

\* a logout invocation reaches the end of its finally block
LogoutEnds == ResetRan \/ \E r \in Req : IsLogoutCall(req[r]) /\ ~IsLogoutCall(req'[r])

\* C16: every logout invocation ends, and ends with the session cleared:
\* status unauthenticated, no user, no access token, no stored token, no timer,
\* empty queue, manager not refreshing.
C16_TeardownClears ==
    /\ [][LogoutEnds => SessionCleared']_vars
    /\ \A r \in Req : IsLogoutCall(req[r]) ~> ~IsLogoutCall(req[r])

\* ---- C17
\* the callers of scheduleRefresh and what cancels the timer
ScheduleNext ==
    \/ Login
    \/ \E r \in Req : GetMeStart(r)
    \/ \E r \in Req : RespOK(r)
    \/ \E r \in Req : RespError(r)
    \/ \E r \in Req : Resp401(r)
    \/ \E r \in Req : RefreshOK(r)
    \/ \E r \in Req : RefreshFail(r)
    \/ \E r \in Req : JoinResume(r)
    \/ \E r \in Req : OwnerResume(r)
    \/ ManualClick
    \/ ManualCall
    \/ ManualOK
    \/ ManualFail
    \/ TimerFire
    \/ UserLogout
    \/ LogoutSettle

SpecSchedule == Init /\ [][ScheduleNext]_vars

\* C17: a pending timer was armed for T minus 2 minutes, T being the expiry of
\* the token it was armed for, and only if T was at least 30 seconds away.
C17_ArmedAtExpiryMinusMargin ==
    mgr.timerPending =>
        /\ mgr.untilExpiry >= MIN_REFRESH_IN_MS
        /\ mgr.refreshIn = mgr.untilExpiry - REFRESH_BEFORE_EXPIRY_MS

\* ---- C18
\* setTimeout callbacks of scheduleRefresh that are armed and not yet run
PendingTimers == (IF mgr.timerPending THEN 1 ELSE 0) + mgr.orphans

\* the manual refresh failed: onRefreshFailure ran
ManualFailed == manual.pending /\ ~manual'.pending /\ ids' = ids

C18_OneTimer ==
    /\ PendingTimers <= 1
    /\ mgr.timerPending => mgr.refreshTimer # 0

C18_CancelStep ==
    /\ (ManualFailed \/ ResetRan) => PendingTimers' = 0
    /\ mgr'.refreshTimer \notin {0, mgr.refreshTimer} => PendingTimers' = 1

\* C18: at most one proactive-refresh timer is pending in every reachable
\* state; a step that arms a timer for a new token leaves exactly that one
\* pending, and onRefreshFailure and reset leave none.
C18_SingleTimer == []C18_OneTimer /\ [][C18_CancelStep]_vars

\* the timer was re-armed for the second token while the first was pending
C18_Witness ==
    /\ mgr.timerPending
    /\ mgr.refreshTimer = 2
    /\ PendingTimers = 1

\* ---- C19
\* request r goes out on the wire in this step (first send or replay)
Dispatched(r) == req'[r].sends = req[r].sends + 1

\* C19: a request that goes out, first send or replay, carries the access
\* token the store holds at that moment; with no token in the store it carries
\* no bearer token.
C19_TokenAtSendTime ==
    [][\A r \in Req : Dispatched(r) =>
            /\ req'[r].pc = "flight"
            /\ req'[r].hdr = store'.accessToken
            /\ store'.accessToken = store.accessToken]_vars

\* a replay is on the wire with the second token while the store holds it
C19_Witness ==
    \E r \in Req :
        /\ req[r].pc = "flight"
        /\ req[r].sends = 2
        /\ req[r].hdr = 2
        /\ store.accessToken = 2

\* ---- C20
\* the answer to request r is a success or an error other than 401
PassedThrough(r) ==
    /\ req[r].pc = "flight"
    /\ \/ req'[r].pc = "done"
       \/ req'[r].pc = "failed" /\ req'[r].err = HttpErr(r)

\* C20: a success or a non-401 error is handed to the caller (the response,
\* or that error) and the step changes neither the refresh manager nor the
\* auth store, starts no refresh call and invokes no logout.
C20_PassThrough ==
    [][\A r \in Req : PassedThrough(r) =>
            /\ req'[r].pc = "done" => req'[r].err = NoErr
            /\ mgr' = mgr
            /\ store' = store
            /\ shared' = shared
            /\ logouts' = logouts
            /\ nCalls' = nCalls
            /\ OutstandingCalls' = OutstandingCalls
            /\ \A q \in Req \ {r} : req'[q] = req[q]]_vars

\* a non-401 error came back while a refresh was in progress with a request
\* queued, and the refresh is still in progress
C20_Witness ==
    /\ mgr.isRefreshing
    /\ mgr.failedQueue # <<>>
    /\ store.status = "authenticated"
    /\ \E r \in Req : req[r].pc = "failed" /\ req[r].err = HttpErr(r)

\* ---- C21
\* setAuth ran in this step; the token it was given is the one just issued
SetAuthRan == givenUser' # "-"

C21_SetAuthStep ==
    SetAuthRan =>
        /\ ids'.tok = ids.tok + 1
        /\ store'.status = "authenticated"
        /\ store'.accessToken = ids'.tok
        /\ store'.ls = ids'.tok
        /\ store'.user = IF givenUser' = "none" THEN store.user
                         ELSE normalizeUserData(givenUser')

\* C21: setAuth({user, accessToken}) leaves status = authenticated and the
\* store's accessToken and localStorage's accessToken equal to the given
\* token; the user becomes the normalized given user, or stays the user the
\* store held when no user is given.
C21_SetAuthResult == [][C21_SetAuthStep]_vars

\* setAuth was given no user while the store held one, and the store still
\* holds it with the new token
C21_Witness ==
    /\ givenUser = "none"
    /\ store.user = "normalized"
    /\ store.status = "authenticated"
    /\ store.accessToken = 2
    /\ store.ls = 2

\* C21 as stated: the user is always the normalized given user
C21_UserIsGiven ==
    [][SetAuthRan => store'.user = normalizeUserData(givenUser')]_vars

\* ---- C22
\* steps that call triggerRefresh: the click of handleManualRefresh, the timer
\* callback, and the interceptor when it starts its refresh call
ManualClicked == ~manual.importing /\ manual'.importing
TimerRan == mgr.timerPending /\ ~mgr'.timerPending /\ mgr'.refreshTimer = mgr.refreshTimer
CallStarted(r) == req[r].pc = "flight" /\ req'[r].pc = "refreshCall"
TriggerCalled == ManualClicked \/ TimerRan \/ \E r \in Req : CallStarted(r)

C22_Consistent == mgr.isRefreshing <=> mgr.refreshPromise # 0

C22_TriggerStep ==
    TriggerCalled =>
        IF mgr.isRefreshing
        THEN /\ mgr' = [mgr EXCEPT !.timerPending = IF TimerRan THEN FALSE ELSE @]
             /\ shared' = shared
             /\ ids'.cyc = ids.cyc
             /\ ManualClicked => manual'.cyc = mgr.refreshPromise
             /\ \A r \in Req : ~CallStarted(r)
        ELSE /\ mgr'.isRefreshing
             /\ mgr'.refreshPromise = ids.cyc + 1
             /\ ids'.cyc = ids.cyc + 1
             /\ shared' = "pending"
             /\ mgr'.refreshTimer = mgr.refreshTimer
             /\ ManualClicked => manual'.cyc = mgr'.refreshPromise
             /\ ManualClicked \/ TimerRan => mgr'.failedQueue = mgr.failedQueue

\* C22: triggerRefresh called while the manager is refreshing returns the
\* existing shared promise and changes nothing (status, promise, queue, timer
\* handle); called while idle it creates a new shared promise and sets the
\* status to refreshing.
C22_JoinSemantics == []C22_Consistent /\ [][C22_TriggerStep]_vars

\* the manual refresh joined the cycle a request's interceptor had started
C22_Witness ==
    /\ manual.pending
    /\ mgr.isRefreshing
    /\ \E r \in Req : req[r].pc = "refreshCall" /\ req[r].cyc = manual.cyc

\* ---- C23
\* a caller calls api.get / post / put / patch / delete
ApiCall(r) ==
    /\ ~MicrotaskPending
    /\ NextToSend(r)
    /\ api.pc # "request"
    /\ api.pc # "sleep"
    /\ \E options \in RetryOptions, url \in Urls :
         Commit(executeWithRetry([World EXCEPT !.api = IdleApi], r, url, options, 0), 0, 0)
    /\ UNCHANGED <<manual, nCalls>>

\* sleep(delay) is over: executeWithRetry(requestFn, options, attempt + 1)
RetryWake ==
    /\ ~MicrotaskPending
    /\ api.pc = "sleep"
    /\ Commit(executeWithRetry(World, api.req, api.url, api.options, api.attempt + 1), 0, 0)
    /\ UNCHANGED <<manual, nCalls>>

\* calls through the api client, one after the other (NReq of them), their
\* requests followed through the interceptors, the logouts the interceptor
\* starts and the timer setAuth arms
RetryNext ==
    \/ Login
    \/ \E r \in Req : ApiCall(r)
    \/ \E r \in Req : RespOK(r)
    \/ \E r \in Req : RespError(r)
    \/ \E r \in Req : Resp401(r)
    \/ \E r \in Req : RefreshOK(r)
    \/ \E r \in Req : RefreshFail(r)
    \/ \E r \in Req : JoinResume(r)
    \/ \E r \in Req : OwnerResume(r)
    \/ RetryWake
    \/ TimerFire
    \/ LogoutSettle

\* every request is answered, every refresh call settles, every continuation
\* runs, every sleep ends and every logout's POST is answered
SpecRetry ==
    /\ Init
    /\ [][RetryNext]_vars
    /\ \A r \in Req : WF_vars(RespOK(r) \/ RespError(r) \/ Resp401(r))
    /\ \A r \in Req : WF_vars(RefreshOK(r) \/ RefreshFail(r))
    /\ \A r \in Req : WF_vars(JoinResume(r))
    /\ \A r \in Req : WF_vars(OwnerResume(r))
    /\ WF_vars(RetryWake)
    /\ WF_vars(LogoutSettle)

\* C23: a call with retry not disabled and no maxRetries option whose every
\* attempt fails with a network error throws after requestFn was invoked
\* 1 + 3 times.
C23_NetworkRetriedThrice ==
    (/\ api.pc = "thrown"
     /\ api.options = [retry |-> TRUE, maxRetries |-> -1]
     /\ api.failures = {0}) => api.invoked = 1 + 3


\* ---- C24
\* statuses whose mapped error has a type outside the retryable types
NotRetryable == {401, 404}

\* the retry limit of the running call
MaxRetriesOf(a) ==
    IF a.options.maxRetries # -1 THEN a.options.maxRetries
    ELSE IF a.error = Null THEN 0 ELSE getMaxRetries(a.error)

C24_Bounded ==
    /\ api.invoked <= 1 + MaxRetriesOf(api)
    /\ api.invoked <= 1 + MaxRetriesOption
    /\ (~api.options.retry) => api.invoked <= 1
    /\ (api.failures # {} /\ api.failures \subseteq NotRetryable) => api.invoked = 1
    /\ api.pc = "thrown" => \E status \in api.failures : api.error = mapHttpError(status)

\* an attempt fails: with retry disabled, an error that is not retryable or the
\* limit reached, the error of this attempt is thrown and requestFn is not
\* invoked again
C24_FailStep ==
    (api.pc = "request" /\ api'.pc \in {"sleep", "thrown"}) =>
        /\ api'.invoked = api.invoked
        /\ \E status \in Statuses :
             /\ api'.failures = api.failures \cup {status}
             /\ api'.error = mapHttpError(status)
             /\ (\/ ~api.options.retry
                 \/ status \in NotRetryable
                 \/ api.attempt >= MaxRetriesOf(api')) => api'.pc = "thrown"

\* C24: executeWithRetry terminates: requestFn is invoked at most 1 + maxRetries
\* times, exactly once when options.retry is false or the error is not
\* retryable, and the last error is thrown when the attempts are exhausted.
C24_RetryTerminates ==
    /\ []C24_Bounded
    /\ [][C24_FailStep]_vars
    /\ (api.pc \in {"request", "sleep"}) ~> (api.pc \in {"returned", "thrown"})


\* ---- C25
\* the app is loaded: a token of an earlier page load may be in localStorage
InitBoot ==
    /\ \E token \in {0, 1} :
         Holds([W0 EXCEPT !.store.ls = token, !.ids.tok = token])
    /\ manual = IdleManual
    /\ nCalls = 0

\* useAuthInit (or any other caller) calls initializeAuth()
InitAuth ==
    /\ ~MicrotaskPending
    /\ restore.issued < MaxInitGetMes
    /\ \E r \in Req : NextToSend(r) /\ Commit(initializeAuth(World, r), 0, 0)
    /\ UNCHANGED <<manual, nCalls>>

\* the 10 s timer of initializeAuth fires while the race is undecided
InitTimeout ==
    /\ ~MicrotaskPending
    /\ restore.race
    /\ Commit(raceTimedOut(World), 0, 0)
    /\ UNCHANGED <<manual, nCalls>>

\* the auth store from page load on: initializeAuth, getMe, setAuth, logout
InitNext ==
    \/ InitAuth
    \/ InitTimeout
    \/ \E r \in Req : GetMeStart(r)
    \/ \E r \in Req : RespOK(r)
    \/ \E r \in Req : RespError(r)
    \/ \E r \in Req : Resp401(r)
    \/ \E r \in Req : RefreshOK(r)
    \/ \E r \in Req : RefreshFail(r)
    \/ \E r \in Req : JoinResume(r)
    \/ \E r \in Req : OwnerResume(r)
    \/ \E r \in Req : Recycle(r)
    \/ Login
    \/ UserLogout
    \/ LogoutSettle

\* timers fire and continuations of settled promises run
SpecInit ==
    /\ InitBoot
    /\ [][InitNext]_vars
    /\ WF_vars(InitTimeout)
    /\ \A r \in Req : WF_vars(JoinResume(r))
    /\ \A r \in Req : WF_vars(OwnerResume(r))

\* an initializeAuth call that finds an initialization running, or the status
\* other than idle, returns at a guard: nothing but the record of the call changes
C25_SkipStep ==
    (restore'.ran # "-" /\ (store.isInitializing \/ store.status # "idle")) =>
        /\ restore'.ran = "skipped"
        /\ restore' = [restore EXCEPT !.ran = "skipped"]
        /\ store' = store
        /\ mgr' = mgr

\* C25: initializeAuth is single-flight: a call during an initialization or
\* with the status loading, authenticated or unauthenticated starts no getMe
\* and changes no state; at most one getMe is issued by initializeAuth.
C25_SingleFlight ==
    /\ [](restore.issued <= 1)
    /\ [][C25_SkipStep]_vars

\* a second call came while the first one's getMe was pending
C25_Witness ==
    /\ restore.ran = "skipped"
    /\ store.isInitializing
    /\ restore.calls["init"] # 0
    /\ restore.issued = 1


\* ---- C26
Settled == store.status \in {"authenticated", "unauthenticated"}

C26_EndStep ==
    /\ (store.isInitializing /\ ~store'.isInitializing) => Settled'
    /\ restore'.ran = "passed" => (store'.isInitializing \/ Settled')
    /\ (restore.race /\ ~restore'.race /\ restore'.calls["init"] # 0) =>
           (store'.status = "unauthenticated" /\ store'.ls = 0)

\* C26: an initializeAuth that passed its guards ends, with the status
\* authenticated or unauthenticated and isInitializing false; when getMe does
\* not complete, the timeout ends it with status unauthenticated and the
\* stored token removed.
C26_InitEnds ==
    /\ [][C26_EndStep]_vars
    /\ store.isInitializing ~> (~store.isInitializing /\ Settled)

\* the timeout ended the initialization; its getMe is still pending
C26_Witness ==
    /\ restore.issued = 1
    /\ restore.calls["init"] # 0
    /\ ~restore.race
    /\ ~store.isInitializing
    /\ store.status = "unauthenticated"
    /\ store.ls = 0


\* ---- C27
\* C27: in every reachable state of the auth store, status authenticated
\* implies a non-null accessToken.
C27_AuthenticatedHasToken ==
    store.status = "authenticated" => store.accessToken # 0


\* ---- C28
\* C28: a pending proactive refresh timer implies the status authenticated; in
\* particular every transition to unauthenticated leaves no timer armed: no
\* timer is pending while the status is unauthenticated.
C28_TimerOnlyInSession ==
    mgr.timerPending => store.status # "unauthenticated"


\* ---- C30
\* initializeAuth gave up on the timeout: the race is over and its getMe call
\* is still pending
GaveUp == restore.calls["init"] # 0 /\ ~restore.race

\* the abandoned getMe call completes
LateCompletion == GaveUp /\ restore'.calls["init"] = 0

\* C30: after the timeout won the race, the completion of the still pending
\* getMe call neither sets the status to authenticated nor arms a refresh timer.
C30_LateGetMeIgnored ==
    [][LateCompletion => (/\ store'.status # "authenticated"
                          /\ (mgr'.timerPending => mgr.timerPending))]_vars


\* ---- C29
\* the request the next call through the axios instance goes out as (0: all
\* NReq are in use)
NextSlot == IF \E r \in Req : NextToSend(r) THEN CHOOSE r \in Req : NextToSend(r) ELSE 0

\* the world of a handler whose logout() sends its POST /auth/logout as a
\* request
Posting == [World EXCEPT !.post = NextSlot]

\* the handlers of the response interceptor that call logout()
Resp401Posting(r) == NextSlot # 0 /\ Resp401From(Posting, r, Bodies)

RefreshFailPosting(r) == NextSlot # 0 /\ RefreshFailFrom(Posting, r)

OwnerResumePosting(r) == NextSlot # 0 /\ OwnerResumeFrom(Posting, r)

\* a session with one request on the wire
TeardownInit ==
    /\ Holds(SendFirst(setAuth(Issue(W0), "raw", FreshTok(W0)), 1))
    /\ manual = IdleManual
    /\ nCalls = 0

\* the answers to that request and to the POSTs of the logouts it leads to
TeardownNext ==
    \/ \E r \in Req : Recycle(r)
    \/ \E r \in Req : RespOK(r)
    \/ \E r \in Req : RespError(r)
    \/ \E r \in Req : Resp401Posting(r)
    \/ \E r \in Req : RefreshOK(r)
    \/ \E r \in Req : RefreshFailPosting(r)
    \/ \E r \in Req : OwnerResumePosting(r)

\* every request is answered, every continuation runs, every caller lets go of
\* its settled request
SpecTeardown ==
    /\ TeardownInit
    /\ [][TeardownNext]_vars
    /\ \A r \in Req : WF_vars(Recycle(r))
    /\ \A r \in Req : WF_vars(RespOK(r) \/ RespError(r) \/ Resp401Posting(r))
    /\ \A r \in Req : WF_vars(RefreshOK(r) \/ RefreshFailPosting(r))
    /\ \A r \in Req : WF_vars(OwnerResumePosting(r))

\* no logout() is running
TeardownOver == logouts = 0 /\ LogoutCalls = {}

\* C29: session teardown terminates: after the authentication failure only
\* finitely many logout invocations, /auth/logout requests and refresh calls
\* occur; from some point on no logout is running.
C29_TeardownTerminates == <>[]TeardownOver

====
